---------------------------- MODULE Spec2Model ----------------------------
(***************************************************************************)
(* A model of numpy_financial/_financial.py: the timing normalizer, the    *)
(* closed-form annuity functions (fv, pmt, nper, pv, ipmt, ppmt), npv and  *)
(* mirr, and the two Newton-Raphson solvers (rate, irr).                   *)
(*                                                                         *)
(* Every call of the library is one behaviour: Init draws the function     *)
(* that is called and its arguments, the actions execute its body, and     *)
(* `ret' holds what the call returns or raises.                            *)
(*                                                                         *)
(* Numbers.  A float is modelled as an extended rational [n, d]: d > 0 is  *)
(* the fraction n/d in lowest terms, d = 0 is one of the IEEE specials     *)
(* (n = 1: +inf, n = -1: -inf, n = 0: not-a-number).  Arithmetic on finite *)
(* values is exact (rounding is not modelled, nor is the sign of zero);    *)
(* the specials follow IEEE 754 as numpy applies it: x/0 is an infinity    *)
(* or NaN and never raises, NaN compares false with everything.            *)
(***************************************************************************)
EXTENDS Integers, Sequences, FiniteSets, TLC

VARIABLES
    fn,     \* the function of the library that was called
    args,   \* its arguments, as the caller passed them
    pc,     \* the position inside the function's body
    loc,    \* the function's local variables
    ret     \* what the call returned or raised, once pc = "done"

vars == <<fn, args, pc, loc, ret>>

-----------------------------------------------------------------------------
(* Extended rationals *)

NaN == [n |-> 0, d |-> 0]
PInf == [n |-> 1, d |-> 0]
NInf == [n |-> -1, d |-> 0]

AbsInt(i) == IF i < 0 THEN -i ELSE i

SgnInt(i) == IF i < 0 THEN -1 ELSE IF i = 0 THEN 0 ELSE 1

RECURSIVE GCD(_, _)
GCD(a, b) == IF b = 0 THEN a ELSE GCD(b, a % b)

\* The fraction n/d (d # 0) in lowest terms with a positive denominator.
Q(n, d) ==
    LET g == GCD(AbsInt(n), AbsInt(d))
        s == SgnInt(d)
    IN  [n |-> (s * n) \div g, d |-> (s * d) \div g]

\* (a/b) * (c/d) for b, d > 0, the common factors cancelled first.
FracMul(a, b, c, d) ==
    LET g1 == GCD(AbsInt(a), d)
        g2 == GCD(AbsInt(c), b)
    IN  IF a = 0 \/ c = 0 THEN [n |-> 0, d |-> 1]
        ELSE Q((a \div g1) * (c \div g2), (b \div g2) * (d \div g1))

Num(i) == [n |-> i, d |-> 1]

Zero == Num(0)
One == Num(1)

IsNaN(x) == x.d = 0 /\ x.n = 0
IsInf(x) == x.d = 0 /\ x.n # 0
IsFinite(x) == x.d # 0
IsZero(x) == x.d # 0 /\ x.n = 0

Neg(x) == [n |-> -x.n, d |-> x.d]

Abs(x) == [n |-> AbsInt(x.n), d |-> x.d]

Add(x, y) ==
    IF IsNaN(x) \/ IsNaN(y) THEN NaN
    ELSE IF IsInf(x) /\ IsInf(y) THEN (IF x.n = y.n THEN x ELSE NaN)
    ELSE IF IsInf(x) THEN x
    ELSE IF IsInf(y) THEN y
    ELSE LET g == GCD(x.d, y.d)
         IN  Q(x.n * (y.d \div g) + y.n * (x.d \div g), (x.d \div g) * y.d)

Sub(x, y) == Add(x, Neg(y))

Mul(x, y) ==
    IF IsNaN(x) \/ IsNaN(y) THEN NaN
    ELSE IF IsInf(x) \/ IsInf(y)
         THEN (IF x.n = 0 \/ y.n = 0 THEN NaN
               ELSE [n |-> SgnInt(x.n) * SgnInt(y.n), d |-> 0])
    ELSE FracMul(x.n, x.d, y.n, y.d)

\* numpy's true division: a zero divisor gives an infinity (NaN for 0/0)
\* with a warning, never an exception.
Div(x, y) ==
    IF IsNaN(x) \/ IsNaN(y) THEN NaN
    ELSE IF IsInf(y) THEN (IF IsInf(x) THEN NaN ELSE Zero)
    ELSE IF IsZero(y)
         THEN (IF x.n = 0 THEN NaN ELSE [n |-> SgnInt(x.n), d |-> 0])
    ELSE IF IsInf(x) THEN [n |-> SgnInt(x.n) * SgnInt(y.n), d |-> 0]
    ELSE FracMul(x.n, x.d, y.d * SgnInt(y.n), AbsInt(y.n))

\* x ** k for an integer k; x ** 0 is 1 for every x, NaN included, and a
\* negative power of a float zero is an infinity.
RECURSIVE PowNat(_, _)
PowNat(x, k) == IF k <= 0 THEN One ELSE Mul(x, PowNat(x, k - 1))

Pow(x, k) == IF k >= 0 THEN PowNat(x, k) ELSE Div(One, PowNat(x, -k))

\* x ** e for an exponent held in a numeric array (an integer in the model).
PowQ(x, e) == IF IsFinite(e) THEN Pow(x, e.n) ELSE NaN

\* x < y; false as soon as one side is NaN.
Lt(x, y) ==
    IF IsNaN(x) \/ IsNaN(y) THEN FALSE
    ELSE IF IsInf(x) THEN x.n = -1 /\ y # NInf
    ELSE IF IsInf(y) THEN y.n = 1
    ELSE x.n * y.d < y.n * x.d

Gt(x, y) == Lt(y, x)

\* x == y as numpy compares: NaN is equal to nothing.
Eq(x, y) == ~IsNaN(x) /\ ~IsNaN(y) /\ x = y

\* Memory whose content nothing fixes: an element of np.empty_like that was
\* never written, or a non-finite float cast to an integer.
Unspecified == [n |-> 0, d |-> -1]

\* A float stored into an integer array: C's cast, truncation toward zero.
Trunc(x) ==
    IF x.d > 0 THEN Num(SgnInt(x.n) * (AbsInt(x.n) \div x.d)) ELSE Unspecified

IsInteger(x) == x.d = 1

-----------------------------------------------------------------------------
(* What a call gives back *)

Value(v) == [kind |-> "value", v |-> v]
Raise(e) == [kind |-> "raise", exc |-> e]
NoRet == [kind |-> "none"]

Returned == pc = "done" /\ ret.kind = "value"
Raised == pc = "done" /\ ret.kind = "raise"

RECURSIVE SeqOf(_, _)
\* The sequences of length k over S.
SeqOf(S, k) ==
    IF k = 0 THEN {<<>>}
    ELSE {Append(s, e) : s \in SeqOf(S, k - 1), e \in S}

RECURSIVE SeqUpTo(_, _)
SeqUpTo(S, k) == IF k = 0 THEN {<<>>} ELSE SeqOf(S, k) \cup SeqUpTo(S, k - 1)

-----------------------------------------------------------------------------
(* _convert_when: the timing normalizer *)
(*                                                                         *)
(* A `when' argument is a tagged value: an int (field i), a str (field s, *)
(* the sequence of its characters, which is what iterating a Python str    *)
(* yields), a list of such values or an ndarray of numbers (field l).      *)
(* Every value carries all three fields, the unused ones empty.            *)

WInt(k) == [t |-> "int", i |-> k, s |-> <<>>, l |-> <<>>]
WStr(s) == [t |-> "str", i |-> 0, s |-> s, l |-> <<>>]
WList(l) == [t |-> "list", i |-> 0, s |-> <<>>, l |-> l]
WArr(a) == [t |-> "ndarray", i |-> 0, s |-> <<>>, l |-> [k \in 1..Len(a) |-> WInt(a[k])]]

\* The keys of the dict _when_to_num that map to 0, and those that map to 1.
EndKeys ==
    { WStr(<<"e", "n", "d">>), WStr(<<"e">>), WInt(0),
      WStr(<<"f", "i", "n", "i", "s", "h">>) }

BeginKeys ==
    { WStr(<<"b", "e", "g", "i", "n">>), WStr(<<"b">>), WInt(1),
      WStr(<<"b", "e", "g", "i", "n", "n", "i", "n", "g">>),
      WStr(<<"s", "t", "a", "r", "t">>) }

_when_to_num == [k \in EndKeys \cup BeginKeys |-> IF k \in EndKeys THEN 0 ELSE 1]

\* What iterating over `when' yields: the characters of a str, each a str
\* of length one; the items of a list.
Items(when) ==
    IF when.t = "str"
    THEN [k \in 1..Len(when.s) |-> WStr(<<when.s[k]>>)]
    ELSE when.l

\* _when_to_num[x] for x in when: the first item that is no key raises
\* (KeyError, or TypeError for an unhashable item), and the exception
\* leaves the function.
ListLookup(items) ==
    LET bad == {i \in 1..Len(items) : items[i] \notin DOMAIN _when_to_num}
        first == CHOOSE i \in bad : \A j \in bad : i <= j
    IN  IF bad = {}
        THEN Value(WList([i \in 1..Len(items) |-> WInt(_when_to_num[items[i]])]))
        ELSE IF items[first].t \in {"list", "ndarray"}
             THEN Raise("TypeError")
             ELSE Raise("KeyError")

_convert_when(when) ==
    IF when.t = "ndarray" THEN Value(when)
    ELSE IF when \in DOMAIN _when_to_num THEN Value(WInt(_when_to_num[when]))
    ELSE IF when.t = "int" THEN Raise("TypeError")
    ELSE ListLookup(Items(when))

\* The `when' arguments the model calls the normalizer with: ints, every
\* str of up to MaxStrLen characters over a small alphabet, the recognized
\* words, short lists, and arrays that are already numeric.
MaxStrLen == 2
MaxListLen == 2

Alphabet == {"b", "e", "x"}

WhenItems ==
    { WInt(0), WInt(1), WInt(2), WStr(<<"x">>),
      WStr(<<"b", "e", "g", "i", "n">>), WStr(<<"e", "n", "d">>) }

WhenInputs ==
    {WInt(k) : k \in 0..2}
    \cup {WStr(s) : s \in SeqUpTo(Alphabet, MaxStrLen)}
    \cup (EndKeys \cup BeginKeys)
    \cup {WList(l) : l \in SeqUpTo(WhenItems, MaxListLen)}
    \cup {WList(<<WList(<<WInt(0)>>)>>), WList(<<WStr(<<"b", "e">>)>>)}
    \cup {WArr(a) : a \in SeqUpTo(0..2, MaxListLen)}

InitWhen ==
    /\ fn = "_convert_when"
    /\ args \in {[when |-> w] : w \in WhenInputs}
    /\ pc = "call"
    /\ loc = [none |-> TRUE]
    /\ ret = NoRet

ConvertWhen ==
    /\ fn = "_convert_when"
    /\ pc = "call"
    /\ ret' = _convert_when(args.when)
    /\ pc' = "done"
    /\ UNCHANGED <<fn, args, loc>>

-----------------------------------------------------------------------------
(* Arrays.  np.broadcast_arrays gives every argument the common shape (N,); *)
(* an array is a sequence of N numbers.  `rate' also carries its dtype,     *)
(* which np.empty_like(rate) hands on to the result of fv.                  *)

Bc(x, N) == [k \in 1..N |-> x]

Where(cond, a, b) == IF cond THEN a ELSE b

\* The codes of a normalized `when', broadcast to shape (N,).
WhenArray(w, N) ==
    IF w.t = "int" THEN Bc(Num(w.i), N)
    ELSE [k \in 1..N |-> Num(w.l[IF Len(w.l) = 1 THEN 1 ELSE k].i)]

\* zero = rate == 0
ZeroMask(rate) == [k \in 1..Len(rate) |-> Eq(rate[k], Zero)]

\* nonzero = ~zero
NonzeroMask(zero) == [k \in 1..Len(zero) |-> ~zero[k]]

\* arr[mask] = values, into an array of the given dtype.
Assign(dtype, arr, mask, values) ==
    [k \in 1..Len(arr) |->
        IF mask[k]
        THEN (IF dtype = "int" THEN Trunc(values[k]) ELSE values[k])
        ELSE arr[k]]

\* fv, lines 129-147: rate is [dtype, v]; the other arguments are arrays.
fv(rate, nper, pmt, pv, when) ==
    LET N == Len(rate.v)
        fv_array == Bc(Unspecified, N)
        zero == ZeroMask(rate.v)
        nonzero == NonzeroMask(zero)
        at_zero == [k \in 1..N |-> Neg(Add(pv[k], Mul(pmt[k], nper[k])))]
        temp == [k \in 1..N |-> PowQ(Add(One, rate.v[k]), nper[k])]
        at_nonzero ==
            [k \in 1..N |->
                Sub(Mul(Neg(pv[k]), temp[k]),
                    Mul(Div(Mul(pmt[k], Add(One, Mul(rate.v[k], when[k]))),
                            rate.v[k]),
                        Sub(temp[k], One)))]
    IN  [dtype |-> rate.dtype,
         v |-> Assign(rate.dtype,
                      Assign(rate.dtype, fv_array, zero, at_zero),
                      nonzero, at_nonzero)]

\* pmt, lines 236-242.
pmt(rate, nper, pv, fv_, when) ==
    [k \in 1..Len(rate) |->
        LET temp == PowQ(Add(One, rate[k]), nper[k])
            mask == Eq(rate[k], Zero)
            masked_rate == Where(mask, One, rate[k])
            fact == Where(mask, nper[k],
                          Div(Mul(Add(One, Mul(masked_rate, when[k])),
                                  Sub(temp, One)),
                              masked_rate))
        IN  Div(Neg(Add(fv_[k], Mul(pv[k], temp))), fact)]

\* pv, lines 571-574.
pv(rate, nper, pmt_, fv_, when) ==
    [k \in 1..Len(rate) |->
        LET temp == PowQ(Add(One, rate[k]), nper[k])
            fact == Where(Eq(rate[k], Zero), nper[k],
                          Div(Mul(Add(One, Mul(rate[k], when[k])),
                                  Sub(temp, One)),
                              rate[k]))
        IN  Div(Neg(Add(fv_[k], Mul(pmt_[k], fact))), temp)]

\* A finite value that is no rational (a quotient of logarithms), kept by
\* its sign only.
Irrational(sgn) == [n |-> sgn, d |-> -2]

\* The sign of np.log(x) for a finite x > 0.
LogSign(x) == IF Lt(x, One) THEN -1 ELSE IF x = One THEN 0 ELSE 1

\* np.log(a) / np.log(b): log of a negative number is NaN, log(0) is -inf
\* and log(inf) is inf.  The quotient of two finite logarithms is the
\* integer k when a = b ** k, and irrational otherwise.
LogQuot(a, b) ==
    LET la == IF IsNaN(a) \/ Lt(a, Zero) THEN NaN
              ELSE IF IsZero(a) THEN NInf
              ELSE IF IsInf(a) THEN PInf
              ELSE Num(LogSign(a))
        lb == IF IsNaN(b) \/ Lt(b, Zero) THEN NaN
              ELSE IF IsZero(b) THEN NInf
              ELSE IF IsInf(b) THEN PInf
              ELSE Num(LogSign(b))
        ks == {k \in -4..4 : Pow(b, k) = a}
    IN  IF IsFinite(la) /\ IsFinite(lb) /\ la.n # 0 /\ lb.n # 0
        THEN (IF ks # {} THEN Num(CHOOSE k \in ks : TRUE)
              ELSE Irrational(la.n * lb.n))
        ELSE Div(la, lb)

\* nper with the sign of the zero-rate branch lost: (fv + pv) / pmt.
NperUnsigned(rate, pmt_, pv_, fv_, when) ==
    LET N == Len(rate)
        zero == ZeroMask(rate)
        at_zero == [k \in 1..N |-> Div(Add(fv_[k], pv_[k]), pmt_[k])]
        z == [k \in 1..N |->
                Div(Mul(pmt_[k], Add(One, Mul(rate[k], when[k]))), rate[k])]
        at_nonzero ==
            [k \in 1..N |->
                LogQuot(Div(Add(Neg(fv_[k]), z[k]), Add(pv_[k], z[k])),
                        Add(One, rate[k]))]
    IN  Assign("float", Assign("float", Bc(Unspecified, N), zero, at_zero),
               NonzeroMask(zero), at_nonzero)

\* nper, lines 301-318; nper_array is float64 whatever the dtype of rate.
nper(rate, pmt_, pv_, fv_, when) ==
    LET N == Len(rate)
        nper_array == Bc(Unspecified, N)
        zero == ZeroMask(rate)
        nonzero == NonzeroMask(zero)
        at_zero == [k \in 1..N |-> Div(Neg(Add(fv_[k], pv_[k])), pmt_[k])]
        z == [k \in 1..N |->
                Div(Mul(pmt_[k], Add(One, Mul(rate[k], when[k]))), rate[k])]
        at_nonzero ==
            [k \in 1..N |->
                LogQuot(Div(Add(Neg(fv_[k]), z[k]), Add(pv_[k], z[k])),
                        Add(One, rate[k]))]
    IN  Assign("float", Assign("float", nper_array, zero, at_zero),
               nonzero, at_nonzero)

\* _value_like, lines 321-326: value as an entry of an array of this dtype.
\* np.array(np.nan, dtype=int64) raises ValueError.
_value_like(dtype, value) ==
    IF dtype = "int"
    THEN (IF IsFinite(value) THEN Value(Trunc(value)) ELSE Raise("ValueError"))
    ELSE Value(value)

\* _rbl, line 449: the remaining balance, fv over per - 1 periods.
_rbl(rate, per, pmt_, pv_, when) ==
    fv(rate, [k \in 1..Len(per) |-> Sub(per[k], One)], pmt_, pv_, when)

\* The three masks of ipmt, lines 424, 427 and 430.
PerLt1(per) == [k \in 1..Len(per) |-> Lt(per[k], One)]

Per1AndBegin(when, per) ==
    [k \in 1..Len(per) |-> Eq(when[k], One) /\ Eq(per[k], One)]

PerGt1AndBegin(when, per) ==
    [k \in 1..Len(per) |-> Eq(when[k], One) /\ Gt(per[k], One)]

\* ipmt's three masked assignments, lines 424-437, on the array
\* ipmt_array = rate * bal of the given dtype.
IpmtEdgeCases(dtype, ipmt_array, rate, per, when) ==
    LET N == Len(rate)
        nan == _value_like(dtype, NaN)
        zero_ == _value_like(dtype, Zero)
        a1 == Assign(dtype, ipmt_array, PerLt1(per), Bc(nan.v, N))
        a2 == Assign(dtype, a1, Per1AndBegin(when, per), Bc(zero_.v, N))
        discounted(a) == [k \in 1..N |-> Div(a[k], Add(One, rate[k]))]
        a3(a) == Assign(dtype, a, PerGt1AndBegin(when, per), discounted(a))
    IN  IF nan.kind = "raise" THEN nan ELSE Value(a3(a2))

\* rate * _rbl(rate, per, total_pmt, pv, when), line 422.
RateTimesBalance(rate, bal) ==
    [dtype |-> bal.dtype, v |-> [k \in 1..Len(rate) |-> Mul(bal.v[k], rate[k])]]

\* ipmt, lines 419-439, on the broadcast arrays.
ipmt(rate, per, nper_, pv_, fv_, when) ==
    LET total_pmt == pmt(rate.v, nper_, pv_, fv_, when)
        ipmt_array == RateTimesBalance(rate.v, _rbl(rate, per, total_pmt, pv_, when))
    IN  IpmtEdgeCases(rate.dtype, ipmt_array.v, rate.v, per, when)

\* total + interest in the place of total - interest.
TotalPlusInterest(total, interest) ==
    IF interest.kind = "raise" THEN interest
    ELSE Value([k \in 1..Len(total) |-> Add(total[k], interest.v[k])])

\* total - interest, line 478; an exception of ipmt leaves ppmt.
Principal(total, interest) ==
    IF interest.kind = "raise" THEN interest
    ELSE Value([k \in 1..Len(total) |-> Sub(total[k], interest.v[k])])

\* ppmt, lines 477-478.
ppmt(rate, per, nper_, pv_, fv_, when) ==
    Principal(pmt(rate.v, nper_, pv_, fv_, when),
              ipmt(rate, per, nper_, pv_, fv_, when))

-----------------------------------------------------------------------------
(* Calls of the closed-form functions *)

MaxElems == 2
MaxNper == 2
MaxPer == 3

RateVals == {Zero, One, Num(-1), Q(1, 2)}

AmountVals == {Num(-1), Zero, Q(1, 2)}

\* Non-empty arrays of up to MaxElems numbers.
ArraysOf(S) == SeqUpTo(S, MaxElems) \ {<<>>}

\* rate as the caller passes it: an array of floats, or of Python ints.
Rates ==
    {[dtype |-> "float", v |-> a] : a \in ArraysOf(RateVals)}
    \cup {[dtype |-> "int", v |-> a] : a \in ArraysOf({r \in RateVals : IsInteger(r)})}

Periods(max) == {Num(k) : k \in 0..max}

TvmWhens == {WInt(0), WStr(<<"b", "e", "g", "i", "n">>)}

InitTvm ==
    /\ pc = "call"
    /\ loc = [none |-> TRUE]
    /\ ret = NoRet
    /\ \/ /\ fn = "fv"
          /\ args \in [rate : Rates, nper : Periods(MaxNper), pmt : AmountVals,
                       pv : AmountVals, when : TvmWhens]
       \/ /\ fn = "pv"
          /\ args \in [rate : Rates, nper : Periods(MaxNper), pmt : AmountVals,
                       fv : AmountVals, when : TvmWhens]
       \/ /\ fn = "pmt"
          /\ args \in [rate : Rates, nper : Periods(MaxNper), pv : AmountVals,
                       fv : AmountVals, when : TvmWhens]
       \/ /\ fn = "nper"
          /\ args \in [rate : Rates, pmt : AmountVals, pv : AmountVals,
                       fv : AmountVals, when : TvmWhens]
       \/ /\ fn \in {"ipmt", "ppmt"}
          /\ args \in [rate : Rates, per : Periods(MaxPer),
                       nper : Periods(MaxNper), pv : AmountVals,
                       fv : AmountVals, when : TvmWhens]

\* The shape all arguments are broadcast to, and the arguments in it.
Shape == Len(args.rate.v)
B(x) == Bc(x, Shape)
W == WhenArray(_convert_when(args.when).v, Shape)
WhenRaises == _convert_when(args.when).kind = "raise"

Return(r) ==
    /\ ret' = (IF WhenRaises THEN _convert_when(args.when) ELSE r)
    /\ pc' = "done"
    /\ UNCHANGED <<fn, args, loc>>

CallFv ==
    /\ fn = "fv" /\ pc = "call"
    /\ Return(Value(fv(args.rate, B(args.nper), B(args.pmt), B(args.pv), W)))

CallPv ==
    /\ fn = "pv" /\ pc = "call"
    /\ Return(Value(pv(args.rate.v, B(args.nper), B(args.pmt), B(args.fv), W)))

CallPmt ==
    /\ fn = "pmt" /\ pc = "call"
    /\ Return(Value(pmt(args.rate.v, B(args.nper), B(args.pv), B(args.fv), W)))

CallNper ==
    /\ fn = "nper" /\ pc = "call"
    /\ Return(Value(nper(args.rate.v, B(args.pmt), B(args.pv), B(args.fv), W)))

CallIpmt ==
    /\ fn = "ipmt" /\ pc = "call"
    /\ Return(ipmt(args.rate, B(args.per), B(args.nper), B(args.pv),
                   B(args.fv), W))

CallPpmt ==
    /\ fn = "ppmt" /\ pc = "call"
    /\ Return(ppmt(args.rate, B(args.per), B(args.nper), B(args.pv),
                   B(args.fv), W))

\* The caller feeds the future value fv returned back into pv, with the
\* other arguments unchanged.
PvOfFv ==
    /\ fn = "fv" /\ Returned
    /\ fn' = "pv(fv)"
    /\ ret' = Value(pv(args.rate.v, B(args.nper), B(args.pmt), ret.v.v, W))
    /\ UNCHANGED <<args, pc, loc>>

\* The caller feeds the present value pv returned back into fv.
FvOfPv ==
    /\ fn = "pv" /\ Returned
    /\ fn' = "fv(pv)"
    /\ ret' = Value(fv(args.rate, B(args.nper), B(args.pmt), ret.v, W))
    /\ UNCHANGED <<args, pc, loc>>

-----------------------------------------------------------------------------
(* rate: Newton-Raphson on the annuity equation *)

\* _g_div_gp, lines 585-592, at one element.
_g_div_gp(r, n, p, x, y, w) ==
    LET t1 == PowQ(Add(r, One), n)
        t2 == PowQ(Add(r, One), Sub(n, One))
        rw1 == Add(Mul(r, w), One)
        pt == Mul(p, Sub(t1, One))
        g == Add(Add(y, Mul(t1, x)), Div(Mul(pt, rw1), r))
        gp == Add(Add(Sub(Mul(Mul(n, t2), x),
                          Div(Mul(pt, rw1), Mul(r, r))),
                      Div(Mul(Mul(Mul(n, p), t2), rw1), r)),
                  Div(Mul(pt, w), r))
    IN  Div(g, gp)

\* An optional argument: None, or a number.
None == [given |-> FALSE, v |-> Zero]
Given(x) == [given |-> TRUE, v |-> x]

\* default_type('0.1') and default_type('1e-6'), lines 651 and 654.
DefaultGuess == Q(1, 10)
DefaultTol == Q(1, 1000000)

\* np.any in the place of np.all: the loop would stop as soon as one
\* element is close.
AnyClose(rnp1, rn, tol) ==
    \E k \in 1..Len(rnp1) : Lt(Abs(Sub(rnp1[k], rn[k])), tol)

\* np.all(diff < tol) with diff = abs(rnp1 - rn), lines 663-664.
AllClose(rnp1, rn, tol) ==
    \A k \in 1..Len(rnp1) : Lt(Abs(Sub(rnp1[k], rn[k])), tol)

MaxIter == 3

RatePvVals == {Num(-1), One, Num(2)}

\* Decimal if isinstance(pmt, Decimal) else float, line 646: the numbers of
\* a call are all floats or all Decimals (dom), and pmt is passed as one
\* number or as an array of numbers; an array is no instance of Decimal.
default_type(dom, pmt_array) ==
    IF dom = "decimal" /\ ~pmt_array THEN "decimal" ELSE "float"

InitRate ==
    /\ fn = "rate"
    /\ pc = "call"
    /\ loc = [none |-> TRUE]
    /\ ret = NoRet
    /\ \/ args \in [nper : {One}, pmt : {Num(-1), One},
                    pv : ArraysOf(RatePvVals), fv : {Zero, One},
                    when : TvmWhens,
                    guess : {None, Given(Zero), Given(One)},
                    tol : {None, Given(Zero), Given(One)},
                    maxiter : -1..MaxIter,
                    dom : {"float"}, pmt_array : {FALSE}]
       \/ args \in [nper : {Num(2)}, pmt : {Zero},
                    pv : ArraysOf({Num(-1), Num(-2)}), fv : {Num(4), Num(-1)},
                    when : TvmWhens,
                    guess : {Given(One)},
                    tol : {Given(Zero), Given(Q(1, 10)), Given(One)},
                    maxiter : -1..MaxIter,
                    dom : {"float"}, pmt_array : {TRUE}]
       \/ args \in [nper : {One}, pmt : {Num(-1), One},
                    pv : ArraysOf(RatePvVals), fv : {Zero},
                    when : {WInt(0)},
                    guess : {None, Given(Zero), Given(One)},
                    tol : {None, Given(One)},
                    maxiter : -1..MaxIter,
                    dom : {"decimal"}, pmt_array : BOOLEAN]

\* Lines 645-660: the timing code, the defaults, and the loop's variables.
\* rn is the scalar guess (a sequence of one number) until the first step
\* broadcasts it; rn_dom, tol_dom and nan_dom are the numeric types of rn,
\* of tol and of the NaN of line 669.  hist is a history variable: the
\* candidates r_0, r_1, ... computed so far, in the broadcast shape.
RateEnter ==
    /\ fn = "rate" /\ pc = "call"
    /\ LET w == _convert_when(args.when)
           N == Len(args.pv)
           dt == default_type(args.dom, args.pmt_array)
           guess == IF args.guess.given THEN args.guess.v ELSE DefaultGuess
           tol == IF args.tol.given THEN args.tol.v ELSE DefaultTol
       IN  IF w.kind = "raise"
           THEN /\ ret' = w
                /\ pc' = "done"
                /\ loc' = loc
           ELSE /\ loc' = [when |-> WhenArray(w.v, N), tol |-> tol,
                           rn |-> <<guess>>, iterator |-> 0,
                           close |-> FALSE, hist |-> <<Bc(guess, N)>>,
                           rn_dom |-> IF args.guess.given THEN args.dom ELSE dt,
                           tol_dom |-> IF args.tol.given THEN args.dom ELSE dt,
                           nan_dom |-> dt]
                /\ pc' = "loop"
                /\ ret' = ret
    /\ UNCHANGED <<fn, args>>

\* The operations of _g_div_gp on Decimals signal where floats give a NaN
\* or an infinity, and the decimal context traps the signal: 0/0 and
\* 0 ** 0 raise decimal.InvalidOperation, x/0 raises DivisionByZero.  r = 0
\* divides 0 by 0 at line 587, r + 1 = 0 with n <= 1 raises 0 to the power
\* 0 or below at line 586, and a zero gp divides by zero at line 592.
DecimalSignals(r, n, step) ==
    \/ IsZero(r)
    \/ IsZero(Add(r, One)) /\ ~Gt(n, One)
    \/ ~IsFinite(step)

\* One turn of the while loop, lines 661-666.  A float candidate meets the
\* Decimal arguments in p*(t1 - 1), where Python raises TypeError.
RateStep ==
    /\ fn = "rate" /\ pc = "loop"
    /\ loc.iterator < args.maxiter /\ ~loc.close
    /\ LET N == Len(args.pv)
           rn == IF Len(loc.rn) = N THEN loc.rn ELSE Bc(loc.rn[1], N)
           step == [k \in 1..N |->
                       _g_div_gp(rn[k], args.nper, args.pmt,
                                 args.pv[k], args.fv, loc.when[k])]
           rnp1 == [k \in 1..N |-> Sub(rn[k], step[k])]
       IN  IF loc.rn_dom # args.dom
           THEN /\ ret' = Raise("TypeError")
                /\ pc' = "done"
                /\ loc' = loc
           ELSE IF /\ args.dom = "decimal"
                   /\ \E k \in 1..N : DecimalSignals(rn[k], args.nper, step[k])
           THEN /\ ret' = Raise("decimal.DecimalException")
                /\ pc' = "done"
                /\ loc' = loc
           ELSE /\ loc' = [loc EXCEPT !.close = AllClose(rnp1, rn, loc.tol),
                                      !.iterator = loc.iterator + 1,
                                      !.rn = rnp1,
                                      !.hist = Append(loc.hist, rnp1)]
                /\ UNCHANGED <<pc, ret>>
    /\ UNCHANGED <<fn, args>>

\* The return without the test of `close': the last candidate as it is.
LastCandidate(close, rn) == rn

\* The value returned once the loop has ended, lines 667-671.
RateResult(close, rn) ==
    IF ~close THEN [k \in 1..Len(rn) |-> Add(NaN, rn[k])] ELSE rn

\* Lines 667-671.  default_type(np.nan) + rn adds a float to Decimals when
\* the two types differ, where Python raises TypeError.
RateReturn ==
    /\ fn = "rate" /\ pc = "loop"
    /\ ~(loc.iterator < args.maxiter /\ ~loc.close)
    /\ ret' = (IF ~loc.close /\ loc.nan_dom # loc.rn_dom
               THEN Raise("TypeError")
               ELSE Value(RateResult(loc.close, loc.rn)))
    /\ pc' = "done"
    /\ UNCHANGED <<fn, args, loc>>

-----------------------------------------------------------------------------
(* irr: Newton-Raphson on the cash-flow polynomial *)

\* np.polynomial.polynomial.polyval: Horner's rule from the last
\* coefficient, started as c[-1] + x*0.
RECURSIVE Horner(_, _, _, _)
Horner(c, x, i, c0) ==
    IF i > Len(c) THEN c0
    ELSE Horner(c, x, i + 1, Add(c[Len(c) + 1 - i], Mul(c0, x)))

Polyval(c, x) == Horner(c, x, 2, Add(c[Len(c)], Mul(x, Zero)))

\* Polynomial.deriv(): the coefficients k * c[k], and [0] for a constant.
Deriv(c) ==
    IF Len(c) = 1 THEN <<Zero>>
    ELSE [k \in 1..(Len(c) - 1) |-> Mul(Num(k), c[k + 1])]

\* range(100), line 751.
IrrMaxIter == 100

\* The test written as not (abs(x_new - x) >= 1e-12), which a NaN passes.
NotAboveIrrTol(d) == ~(d.d # 0 /\ d.n # 0) /\ ~(d.d = 0 /\ d.n # 0)

\* abs(x_new - x) < 1e-12, line 753.  Every rational of the model has a
\* denominator below 2^31, so a difference that is not zero is above 1e-12.
BelowIrrTol(d) == IsFinite(d) /\ d.n = 0

CashVals == {Num(-1), Zero, One}

\* The cash flows irr is called with: the vectors of one and two entries
\* and one with a trailing zero, on which Newton's step is exact (the
\* polynomial is constant or linear), with several guesses; and the cubic
\* 2 - 2x + x^3, on which Newton's method cycles between x = 1 and x = 0.
IrrValues ==
    SeqOf(CashVals, 1) \cup SeqOf(CashVals, 2) \cup {<<One, Num(2), Zero>>}

IrrGuesses == {Q(1, 10), Zero, One, Num(-1), Num(-2)}

InitIrr ==
    /\ fn = "irr"
    /\ pc = "call"
    /\ loc = [none |-> TRUE]
    /\ ret = NoRet
    /\ \/ args \in [values : IrrValues, guess : IrrGuesses]
       \/ args \in [values : {<<Num(2), Num(-2), Zero, One>>}, guess : {Zero}]

\* Lines 740-749.  1 / (1 + guess) divides Python floats: a zero divisor
\* raises.
IrrEnter ==
    /\ fn = "irr" /\ pc = "call"
    /\ IF Add(One, args.guess) = Zero
       THEN /\ ret' = Raise("ZeroDivisionError")
            /\ pc' = "done"
            /\ loc' = loc
       ELSE /\ loc' = [npv_ |-> args.values, d_npv |-> Deriv(args.values),
                       x |-> Div(One, Add(One, args.guess)), i |-> 0]
            /\ pc' = "loop"
            /\ ret' = ret
    /\ UNCHANGED <<fn, args>>

\* x_new = x - (npv_(x) / d_npv(x)), line 752.
NewtonStep(npv_, d_npv, x) == Sub(x, Div(Polyval(npv_, x), Polyval(d_npv, x)))

\* One turn of the for loop, lines 751-755.
IrrStep ==
    /\ fn = "irr" /\ pc = "loop"
    /\ loc.i < IrrMaxIter
    /\ LET x_new == NewtonStep(loc.npv_, loc.d_npv, loc.x)
       IN  IF BelowIrrTol(Abs(Sub(x_new, loc.x)))
           THEN /\ ret' = Value(Sub(Div(One, x_new), One))
                /\ pc' = "done"
                /\ loc' = [loc EXCEPT !.i = loc.i + 1]
           ELSE /\ loc' = [loc EXCEPT !.x = x_new, !.i = loc.i + 1]
                /\ UNCHANGED <<pc, ret>>
    /\ UNCHANGED <<fn, args>>

\* The loop ran out, line 757.
IrrExhausted ==
    /\ fn = "irr" /\ pc = "loop"
    /\ loc.i = IrrMaxIter
    /\ ret' = Value(NaN)
    /\ pc' = "done"
    /\ UNCHANGED <<fn, args, loc>>

-----------------------------------------------------------------------------
(* npv and mirr *)

RECURSIVE Sum(_, _)
Sum(a, k) == IF k = 0 THEN Zero ELSE Add(Sum(a, k - 1), a[k])

\* npv, lines 828-829.
npv(rate, values) ==
    Sum([t \in 1..Len(values) |->
            Div(values[t], Pow(Add(One, rate), t - 1))],
        Len(values))

\* pos = values > 0, neg = values < 0, lines 862-863.
Pos(values) == [t \in 1..Len(values) |-> Gt(values[t], Zero)]
Neg_(values) == [t \in 1..Len(values) |-> Lt(values[t], Zero)]

AnyTrue(mask) == \E t \in 1..Len(mask) : mask[t]

\* values * mask
Masked(values, mask) ==
    [t \in 1..Len(values) |-> IF mask[t] THEN values[t] ELSE Mul(values[t], Zero)]

\* q ** (1/k) for q >= 0: exact where q is a perfect k-th power, otherwise
\* an irrational positive number.
RootK(q, k) ==
    LET rn == {a \in 0..q.n : PowNat(Num(a), k) = Num(q.n)}
        rd == {a \in 1..q.d : PowNat(Num(a), k) = Num(q.d)}
    IN  IF ~IsFinite(q) \/ k = 1 THEN q
        ELSE IF rn # {} /\ rd # {}
             THEN Q(CHOOSE a \in rn : TRUE, CHOOSE a \in rd : TRUE)
             ELSE Irrational(1)

\* root * scale - 1, line 868.
ScaleLessOne(root, scale, q, k) ==
    IF root.d # -2 THEN Sub(Mul(root, scale), One)
    ELSE IF IsZero(scale) THEN Num(-1)
    ELSE IF Lt(scale, Zero) THEN Irrational(-1)
    ELSE IF Gt(Mul(q, PowNat(scale, k)), One) THEN Irrational(1)
    ELSE Irrational(-1)

\* `or' in the place of `and' in the test of line 864.
PosOrNeg(values) == AnyTrue(Pos(values)) \/ AnyTrue(Neg_(values))

\* The test of line 864.
MirrDefined(values) == AnyTrue(Pos(values)) /\ AnyTrue(Neg_(values))

\* Lines 866-868.
MirrValue(values, finance_rate, reinvest_rate) ==
    LET n == Len(values)
        numer == Abs(npv(reinvest_rate, Masked(values, Pos(values))))
        denom == Abs(npv(finance_rate, Masked(values, Neg_(values))))
        q == Div(numer, denom)
    IN  ScaleLessOne(RootK(q, n - 1), Add(One, reinvest_rate), q, n - 1)

MaxValues == 2

MirrVals == SeqUpTo(CashVals, MaxValues + 1) \ {<<>>}

MirrRates == {Num(-2), Num(-1), Zero, One}

InitMirr ==
    /\ fn = "mirr"
    /\ pc = "call"
    /\ loc = [npv_calls |-> 0, divided |-> FALSE]
    /\ ret = NoRet
    /\ args \in [values : MirrVals, finance_rate : MirrRates,
                 reinvest_rate : MirrRates]

\* Lines 853-865: without a positive and a negative entry, NaN at once.
MirrCheck ==
    /\ fn = "mirr" /\ pc = "call"
    /\ IF ~MirrDefined(args.values)
       THEN /\ ret' = Value(NaN)
            /\ pc' = "done"
       ELSE /\ pc' = "compute"
            /\ ret' = ret
    /\ UNCHANGED <<fn, args, loc>>

\* Lines 866-868: the two calls of npv, the division and the root.
MirrCompute ==
    /\ fn = "mirr" /\ pc = "compute"
    /\ ret' = Value(MirrValue(args.values, args.finance_rate,
                              args.reinvest_rate))
    /\ loc' = [npv_calls |-> loc.npv_calls + 2, divided |-> TRUE]
    /\ pc' = "done"
    /\ UNCHANGED <<fn, args>>

-----------------------------------------------------------------------------
Init == InitWhen \/ InitTvm \/ InitRate \/ InitIrr \/ InitMirr

Next ==
    \/ ConvertWhen
    \/ CallFv \/ CallPv \/ CallPmt \/ CallNper \/ CallIpmt \/ CallPpmt
    \/ PvOfFv \/ FvOfPv
    \/ RateEnter \/ RateStep \/ RateReturn
    \/ IrrEnter \/ IrrStep \/ IrrExhausted
    \/ MirrCheck \/ MirrCompute

Spec == Init /\ [][Next]_vars

-----------------------------------------------------------------------------
\* Every code in a value the normalizer returned.
Codes(w) ==
    IF w.t = "int" THEN {w.i} ELSE {w.l[k].i : k \in 1..Len(w.l)}

\* A recognized spelling, or a list made only of recognized spellings.
Recognized(w) ==
    \/ w \in DOMAIN _when_to_num
    \/ /\ w.t = "list"
       /\ \A k \in 1..Len(w.l) : w.l[k] \in DOMAIN _when_to_num

\* C5: every `when' that is neither a recognized spelling nor a sequence of
\* recognized spellings (nor an array, which is passed through) makes
\* _convert_when raise; no unrecognized str is mapped to a code or a list
\* of codes.
C5_UnrecognizedRejected ==
    (fn = "_convert_when" /\ pc = "done"
        /\ args.when.t # "ndarray" /\ ~Recognized(args.when))
    => ret.kind = "raise"

-----------------------------------------------------------------------------
(* The closed-form functions *)

Elems == 1..Shape

\* The annuity identity at element k for a future value f: with r the rate,
\* f + pv + pmt*nper = 0 where r = 0, and
\* f + pv*(1+r)^nper + pmt*(1+r*when)/r*((1+r)^nper - 1) = 0 elsewhere.
AnnuityIdentity(f, k) ==
    LET r == args.rate.v[k]
        t == PowQ(Add(One, r), args.nper)
    IN  IF r = Zero
        THEN Add(Add(f, args.pv), Mul(args.pmt, args.nper)) = Zero
        ELSE Add(Add(f, Mul(args.pv, t)),
                 Mul(Div(Mul(args.pmt, Add(One, Mul(r, W[k]))), r),
                     Sub(t, One))) = Zero

\* C8: every element of what fv returns was assigned, and satisfies the
\* annuity identity of its branch (rate == 0, rate != 0).
C8_FvIdentity ==
    (fn = "fv" /\ Returned) =>
        \A k \in Elems :
            /\ ret.v.v[k] # Unspecified
            /\ AnnuityIdentity(ret.v.v[k], k)

\* The same for a rate of floating-point dtype only.
FvIdentityOfFloatRate ==
    (fn = "fv" /\ Returned /\ args.rate.dtype = "float") =>
        \A k \in Elems :
            /\ ret.v.v[k] # Unspecified
            /\ AnnuityIdentity(ret.v.v[k], k)

\* C9: wherever 1 + rate != 0, pv of the future value fv returned is the
\* present value fv was given, and fv of the present value pv returned is
\* the future value pv was given.
C9_MutualInverse ==
    /\ (fn = "pv(fv)" /\ Returned) =>
            \A k \in Elems :
                Add(One, args.rate.v[k]) # Zero => ret.v[k] = args.pv
    /\ (fn = "fv(pv)" /\ Returned) =>
            \A k \in Elems :
                Add(One, args.rate.v[k]) # Zero => ret.v.v[k] = args.fv

\* The same for a rate of floating-point dtype only.
MutualInverseOfFloatRate ==
    (fn \in {"pv(fv)", "fv(pv)"} /\ args.rate.dtype = "float")
        => C9_MutualInverse

\* The interest on the remaining balance at element k, before any of the
\* three edge cases of ipmt is applied.
BalanceInterest(k) ==
    Mul(_rbl([dtype |-> "float", v |-> args.rate.v], B(args.per),
             pmt(args.rate.v, B(args.nper), B(args.pv), B(args.fv), W),
             B(args.pv), W).v[k],
        args.rate.v[k])

\* The edge-case policy of ipmt at element k of a returned array a.
IpmtPolicy(a, k) ==
    LET begin == W[k] = One
        per == args.per
    IN  /\ Lt(per, One) => IsNaN(a[k])
        /\ (begin /\ per = One) => a[k] = Zero
        /\ (begin /\ Gt(per, One)) =>
                a[k] = Div(BalanceInterest(k), Add(One, args.rate.v[k]))
        /\ (~begin /\ ~Lt(per, One)) => a[k] = BalanceInterest(k)
        /\ ~(PerLt1(B(per))[k] /\ Per1AndBegin(W, B(per))[k])
        /\ ~(PerLt1(B(per))[k] /\ PerGt1AndBegin(W, B(per))[k])
        /\ ~(Per1AndBegin(W, B(per))[k] /\ PerGt1AndBegin(W, B(per))[k])

\* C6: ipmt gives, at every element: NaN where per < 1; 0 where the timing
\* is BEGIN and per == 1; balance * rate / (1 + rate) where the timing is
\* BEGIN and per > 1; balance * rate where the timing is END and per >= 1;
\* and no element falls under two of the three overriding cases.
C6_IpmtPolicy ==
    (fn = "ipmt" /\ pc = "done") =>
        /\ ret.kind = "value"
        /\ \A k \in Elems : IpmtPolicy(ret.v, k)

\* The same for the calls of ipmt that return.
IpmtPolicyWhenReturned ==
    (fn = "ipmt" /\ Returned) => \A k \in Elems : IpmtPolicy(ret.v, k)

\* A rate of integer dtype makes ipmt raise, whatever the other arguments.
IpmtRaisesOnIntRate ==
    (fn = "ipmt" /\ pc = "done") =>
        (ret.kind = "raise" <=> args.rate.dtype = "int")

\* pmt and ipmt on the arguments of the call under way.
PmtOfArgs == pmt(args.rate.v, B(args.nper), B(args.pv), B(args.fv), W)

IpmtOfArgs ==
    ipmt(args.rate, B(args.per), B(args.nper), B(args.pv), B(args.fv), W)

\* C7: whenever ppmt returns, ppmt + ipmt == pmt at every element, the
\* elements under the edge cases of ipmt included.
C7_PpmtPlusIpmt ==
    (fn = "ppmt" /\ Returned) =>
        \A k \in Elems : Eq(Add(ret.v[k], IpmtOfArgs.v[k]), PmtOfArgs[k])

\* C7 as amended: ppmt + ipmt == pmt at every element where per >= 1 and
\* pmt is finite; where per < 1, ipmt and ppmt are both NaN and so is
\* their sum.
C7_PpmtPlusIpmtFromPeriodOne ==
    (fn = "ppmt" /\ Returned) =>
        \A k \in Elems :
            /\ (~Lt(args.per, One) /\ IsFinite(PmtOfArgs[k])) =>
                    Eq(Add(ret.v[k], IpmtOfArgs.v[k]), PmtOfArgs[k])
            /\ Lt(args.per, One) =>
                    /\ IsNaN(ret.v[k]) /\ IsNaN(IpmtOfArgs.v[k])
                    /\ IsNaN(Add(ret.v[k], IpmtOfArgs.v[k]))

\* A call of ppmt for a period after the first with payments due at the
\* beginning, where the interest is not zero and the identity holds.
C7_Witness ==
    /\ fn = "ppmt" /\ Returned /\ Gt(args.per, One)
    /\ \E k \in Elems :
          /\ W[k] = One
          /\ IsFinite(IpmtOfArgs.v[k]) /\ ~IsZero(IpmtOfArgs.v[k])
          /\ Eq(Add(ret.v[k], IpmtOfArgs.v[k]), PmtOfArgs[k])

-----------------------------------------------------------------------------
(* The rate solver *)

\* The loop of rate has ended with the counter at maxiter and close false.
\* Element e met the tolerance in iteration j: |r_j - r_(j-1)| < tol.
Met(j, e) == Lt(Abs(Sub(loc.hist[j + 1][e], loc.hist[j][e])), loc.tol)

Exhausted ==
    fn = "rate" /\ Returned /\ ~loc.close /\ loc.iterator = args.maxiter

C2_ConvergedReturnsCandidate ==
    (fn = "rate" /\ Returned /\ \E e \in 1..Len(ret.v) : ~IsNaN(ret.v[e])) =>
        LET h == loc.hist
            k == loc.iterator
        IN  /\ 1 <= k /\ k <= args.maxiter
            /\ Len(h) = k + 1
            /\ \A e \in 1..Len(ret.v) : Met(k, e)
            /\ \A j \in 1..(k - 1) : \E e \in 1..Len(ret.v) : ~Met(j, e)
            /\ ret.v = h[k + 1]

\* A call that converged in its second iteration, one element having met
\* the tolerance alone in the first.
C2_Witness ==
    /\ fn = "rate" /\ Returned /\ loc.close /\ loc.iterator = 2
    /\ Len(ret.v) = 2
    /\ ret.v = loc.hist[3] /\ ret.v # loc.hist[2]
    /\ \E e \in 1..2 : Met(1, e)

-----------------------------------------------------------------------------
(* irr and mirr *)

HasPositive(values) == \E t \in 1..Len(values) : Gt(values[t], Zero)
HasNegative(values) == \E t \in 1..Len(values) : Lt(values[t], Zero)

\* C3: on cash flows without both a positive and a negative entry, irr
\* returns NaN for every guess: it neither returns a rate nor raises.
C3_IrrNoSignChangeNaN ==
    (fn = "irr" /\ pc = "done"
        /\ ~(HasPositive(args.values) /\ HasNegative(args.values)))
    => (ret.kind = "value" /\ IsNaN(ret.v))

\* C4: mirr returns NaN exactly when values lacks a positive or a negative
\* entry; then it calls npv and divides not at all; otherwise the
\* denominator is computed from at least one nonzero entry.
C4_MirrNaNIffNoSignChange ==
    (fn = "mirr" /\ pc = "done") =>
        LET lacks == ~(HasPositive(args.values) /\ HasNegative(args.values))
            negative == Masked(args.values, Neg_(args.values))
        IN  /\ ret.kind = "value"
            /\ IsNaN(ret.v) <=> lacks
            /\ lacks => (loc.npv_calls = 0 /\ ~loc.divided)
            /\ ~lacks =>
                    /\ loc.npv_calls = 2 /\ loc.divided
                    /\ \E t \in 1..Len(negative) : ~IsZero(negative[t])

\* C4 as amended: NaN whenever values lacks a positive or a negative entry,
\* with no call of npv and no division; otherwise both calls and the
\* division happen, the denominator has a nonzero entry, and the result is
\* not NaN provided 1 + finance_rate > 0 and 1 + reinvest_rate > 0.
C4_MirrNaNIfNoSignChange ==
    (fn = "mirr" /\ pc = "done") =>
        LET lacks == ~(HasPositive(args.values) /\ HasNegative(args.values))
            negative == Masked(args.values, Neg_(args.values))
        IN  /\ ret.kind = "value"
            /\ lacks => (IsNaN(ret.v) /\ loc.npv_calls = 0 /\ ~loc.divided)
            /\ ~lacks =>
                    /\ loc.npv_calls = 2 /\ loc.divided
                    /\ \E t \in 1..Len(negative) : ~IsZero(negative[t])
                    /\ (Gt(Add(One, args.finance_rate), Zero)
                            /\ Gt(Add(One, args.reinvest_rate), Zero))
                        => ~IsNaN(ret.v)

\* A call of mirr on cash flows with a zero and a positive entry and no
\* negative one: NaN, with no call of npv and no division.
C4_Witness ==
    /\ fn = "mirr" /\ Returned /\ IsNaN(ret.v)
    /\ HasPositive(args.values) /\ ~HasNegative(args.values)
    /\ \E t \in 1..Len(args.values) : IsZero(args.values[t])
    /\ loc.npv_calls = 0 /\ ~loc.divided

-----------------------------------------------------------------------------
(* The Newton loop of irr *)

\* x - P(x)/P'(x) for the cash flows of the call under way.
IrrUpdate(x) ==
    Sub(x, Div(Polyval(args.values, x), Polyval(Deriv(args.values), x)))

\* |x_new - x| < 1e-12 on the rationals of the model: the difference is 0.
IrrMet(x_new, x) ==
    LET d == Abs(Sub(x_new, x)) IN d.d > 0 /\ d.n = 0

\* C11: irr starts from x0 = 1/(1+guess) with no update done; it does at
\* most 100 updates x <- x - P(x)/P'(x); the first update with
\* |x_new - x| < 1e-12 returns 1/x_new - 1 at once, every other update
\* goes on with x_new; after 100 updates without the test met it returns
\* NaN; a NaN or infinite x_new does not meet the test, and the candidates
\* after it are NaN or infinite too, so that run ends in NaN.
C11_IrrNewtonLoop ==
    [][ /\ (fn = "irr" /\ pc = "call" /\ pc' = "loop") =>
              /\ loc'.x = Div(One, Add(One, args.guess))
              /\ loc'.i = 0
        /\ (fn = "irr" /\ pc = "loop") =>
              LET x_new == IrrUpdate(loc.x)
                  met == IrrMet(x_new, loc.x)
              IN  /\ loc.i <= 100
                  /\ ~IsFinite(x_new) => ~met
                  /\ (loc.i < 100 /\ met) =>
                        /\ pc' = "done"
                        /\ ret' = Value(Sub(Div(One, x_new), One))
                        /\ loc'.i = loc.i + 1
                  /\ (loc.i < 100 /\ ~met) =>
                        /\ pc' = "loop" /\ ret' = ret
                        /\ loc'.x = x_new /\ loc'.i = loc.i + 1
                  /\ loc.i = 100 => (pc' = "done" /\ ret' = Value(NaN))
                  /\ ~IsFinite(loc.x) =>
                        \/ pc' = "loop" /\ ~IsFinite(loc'.x)
                        \/ pc' = "done" /\ ret' = Value(NaN)
      ]_vars

\* A call of irr that returned a finite rate from its second update.
C11_Witness ==
    /\ fn = "irr" /\ Returned /\ loc.i = 2 /\ IsFinite(ret.v)
    /\ IrrMet(IrrUpdate(loc.x), loc.x)
    /\ ret.v = Sub(Div(One, IrrUpdate(loc.x)), One)

-----------------------------------------------------------------------------
(* The numeric types of rate *)

\* The defaults and the NaN of the call under way are of the type of the
\* numbers the caller passed.
DefaultsInCallersDomain ==
    /\ ~args.guess.given => loc.rn_dom = args.dom
    /\ ~args.tol.given => loc.tol_dom = args.dom
    /\ loc.nan_dom = args.dom
    /\ pc = "done" => ret # Raise("TypeError")

\* C12: in rate the default guess, the default tol and the NaN returned on
\* exhaustion are Decimals whenever pmt is a Decimal or an array of
\* Decimals, and floats otherwise; no float default meets Decimal operands.
C12_DefaultsInPmtDomain ==
    (fn = "rate" /\ pc # "call") => DefaultsInCallersDomain

\* The same for the calls that pass pmt as one number.
DefaultsInScalarPmtDomain ==
    (fn = "rate" /\ pc # "call" /\ ~args.pmt_array) => DefaultsInCallersDomain

-----------------------------------------------------------------------------
(* The timing codes *)

\* C13: whenever _convert_when returns (for a recognized scalar, a
\* sequence, or an array, which it passes through), every value of the
\* result is the code 0 or 1, and _convert_when of the result returns the
\* result unchanged.
C13_TimingCodes ==
    (fn = "_convert_when" /\ Returned) =>
        /\ Codes(ret.v) \subseteq {0, 1}
        /\ _convert_when(ret.v) = Value(ret.v)

\* The same for every `when' that is no array.
TimingCodesOfNonArrays ==
    (fn = "_convert_when" /\ Returned /\ args.when.t # "ndarray") =>
        /\ Codes(ret.v) \subseteq {0, 1}
        /\ _convert_when(ret.v) = Value(ret.v)

\* _convert_when of what it returned gives the same again, arrays included.
ConvertWhenIdempotent ==
    (fn = "_convert_when" /\ Returned) => _convert_when(ret.v) = Value(ret.v)

-----------------------------------------------------------------------------
(* Non-finite candidates and termination of rate *)

\* The candidates of the call under way in the broadcast shape, and the
\* elements that are not finite or whose step g/g' from here is not.
RnBroadcast ==
    IF Len(loc.rn) = Len(args.pv) THEN loc.rn ELSE Bc(loc.rn[1], Len(args.pv))

StepAt(k) ==
    _g_div_gp(RnBroadcast[k], args.nper, args.pmt, args.pv[k], args.fv,
              loc.when[k])

NonFiniteElems ==
    {k \in 1..Len(args.pv) :
        \/ ~IsFinite(RnBroadcast[k])
        \/ loc.iterator < args.maxiter /\ ~loc.close /\ ~IsFinite(StepAt(k))}

\* From a state of the loop with such an element: either one more step,
\* after which the element is not finite and close is false, or the end of
\* the loop at maxiter with NaN at every element; never an exception.
NonFiniteStays ==
    NonFiniteElems # {} =>
        \/ /\ pc' = "loop"
           /\ ~loc'.close
           /\ \A k \in NonFiniteElems : ~IsFinite(loc'.rn[k])
        \/ /\ pc' = "done"
           /\ ~loc.close /\ loc.iterator >= args.maxiter
           /\ ret'.kind = "value"
           /\ \A k \in 1..Len(ret'.v) : IsNaN(ret'.v[k])

\* C14: in rate, once the step g/g' of an element is undefined or infinite
\* (zero derivative, or r == 0, a guess of 0 included) the element's
\* candidate is non-finite from then on and never meets the tolerance, so
\* close stays false until the counter reaches maxiter and the result is
\* NaN at every element; no exception is raised on the way.
C14_NonFinitePropagates ==
    [][(fn = "rate" /\ pc = "loop") => NonFiniteStays]_vars

\* The same for the calls whose numbers are floats.
NonFinitePropagatesInFloats ==
    [][(fn = "rate" /\ pc = "loop" /\ args.dom = "float") => NonFiniteStays]_vars

\* The counter of rate: 0 on entry, one more with every step, a step only
\* while it is below maxiter and close is false, and the end of the loop
\* otherwise.
CounterBounded ==
    /\ (pc = "call" /\ pc' = "loop") => loc'.iterator = 0
    /\ pc = "loop" =>
          /\ loc.iterator <= args.maxiter \/ loc.iterator = 0
          /\ pc' = "loop" =>
                /\ loc.iterator < args.maxiter /\ ~loc.close
                /\ loc'.iterator = loc.iterator + 1
          /\ (loc.iterator >= args.maxiter \/ loc.close) => pc' = "done"

\* With maxiter <= 0 the loop ends without a step and the result is NaN.
NoStepGivesNaN ==
    (pc = "loop" /\ args.maxiter <= 0) =>
        /\ pc' = "done" /\ loc' = loc
        /\ ret'.kind = "value"
        /\ \A k \in 1..Len(ret'.v) : IsNaN(ret'.v[k])

\* C15: rate ends after at most maxiter Newton steps: the counter starts at
\* 0, grows by exactly 1 per step and never passes maxiter, the loop ends
\* as soon as the counter is at maxiter or close is true; with
\* maxiter <= 0 no step is done and the result is NaN, not the guess.
C15_RateTerminates ==
    [][fn = "rate" => (CounterBounded /\ NoStepGivesNaN)]_vars

\* The counter alone.
RateCounterBounded ==
    [][fn = "rate" => CounterBounded]_vars

\* The result for maxiter <= 0 where the NaN and the guess are of one type.
NoStepGivesNaNInOneDomain ==
    [][(fn = "rate" /\ (args.dom = "float" \/ ~args.pmt_array))
            => NoStepGivesNaN]_vars

=============================================================================
